---- MODULE Spec2Model ----
(***************************************************************************)
(* duplexscan: duplicate-contact detection.                                *)
(*                                                                         *)
(* The module models src/main.rs: the grapheme-based Levenshtein distance, *)
(* its normalisation into a similarity (an f64), the weighted contact      *)
(* score (f64 arithmetic truncated to i32) and the pair generation and     *)
(* parallel (rayon) scoring/filtering pipeline.                            *)
(*                                                                         *)
(* A text (Rust String / &str) is a sequence of code points.  An f64 is    *)
(* modelled bit-exactly for the values the program computes: every value   *)
(* is a non-negative multiple of 2^-60 below 2^15, kept as five base-2^15  *)
(* limbs (least significant first), and every arithmetic operation is the  *)
(* exact result rounded to 53 significant bits, ties to even.              *)
(***************************************************************************)
EXTENDS Integers, Sequences, FiniteSets, Bags, TLC

\* ------------------------------------------------------------------ bounds

\* longest text (in code points) enumerated for the text-level functions
MaxLen == 3
\* largest number of contacts in one run of the pipeline
MaxContacts == 3
\* largest number of tasks the pair list is split into
MaxTasks == 3

\* ------------------------------------------------------------------- texts

\* the combining acute accent: a code point of Grapheme_Cluster_Break=Extend
Accent == "U+0301"

Extend == {Accent}

\* the code points the enumerated texts are made of
CodePoints == {"a", "b", Accent}

Max(x, y) == IF x >= y THEN x ELSE y

Min(x, y) == IF x <= y THEN x ELSE y

\* s.is_empty()
is_empty(s) == Len(s) = 0

\* s.chars().count()
chars_count(s) == Len(s)

\* `let v = value;` followed by Body(v): the value is computed once
Let(value, Body(_)) == CHOOSE r \in {Body(v) : v \in {value}} : TRUE

\* the positions of s where an extended grapheme cluster starts: a code
\* point of class Extend never starts one, except at the start of the text
ClusterStarts(s) == {k \in 1..Len(s) : k = 1 \/ s[k] \notin Extend}

\* the n-th smallest element of a set of positions
NthOf(starts, n) == CHOOSE k \in starts : Cardinality({x \in starts : x <= k}) = n

\* s.graphemes(true).collect(): the extended grapheme clusters of s, in order
graphemes(s) ==
    Let(ClusterStarts(s), LAMBDA starts :
        SubSeq([n \in 1..Cardinality(starts) |->
                   SubSeq(s, NthOf(starts, n),
                          IF n = Cardinality(starts) THEN Len(s)
                          ELSE NthOf(starts, n + 1) - 1)],
               1, Cardinality(starts)))

\* ---------------------------------------------------- levenshtein_distance

\* vec![vec![0; len2 + 1]; len1 + 1] with the first column set to the row
\* index and then the first row set to the column index
InitMatrix(len1, len2) ==
    [i \in 0..len1 |-> [j \in 0..len2 |->
        IF i = 0 THEN j ELSE IF j = 0 THEN i ELSE 0]]

\* the value the loop body stores in matrix[i][j]
\* Cell without the insertion alternative matrix[i][j - 1] + 1
CellNoInsertion(matrix, s1_chars, s2_chars, i, j) ==
    LET cost == IF s1_chars[i] = s2_chars[j] THEN 0 ELSE 1
    IN  Min(matrix[i - 1][j] + 1, matrix[i - 1][j - 1] + cost)

Cell(matrix, s1_chars, s2_chars, i, j) ==
    LET cost == IF s1_chars[i] = s2_chars[j] THEN 0 ELSE 1
    IN  Min(Min(matrix[i - 1][j] + 1, matrix[i][j - 1] + 1),
            matrix[i - 1][j - 1] + cost)

\* the inner loop: for j in 1..=len2, from column j on
RECURSIVE FillRow(_, _, _, _, _)
FillRow(matrix, s1_chars, s2_chars, i, j) ==
    IF j > Len(s2_chars) THEN matrix
    ELSE Let([matrix EXCEPT ![i][j] = Cell(matrix, s1_chars, s2_chars, i, j)],
             LAMBDA stored : FillRow(stored, s1_chars, s2_chars, i, j + 1))

\* the outer loop: for i in 1..=len1, from row i on
RECURSIVE FillMatrix(_, _, _, _)
FillMatrix(matrix, s1_chars, s2_chars, i) ==
    IF i > Len(s1_chars) THEN matrix
    ELSE Let(FillRow(matrix, s1_chars, s2_chars, i, 1),
             LAMBDA filled : FillMatrix(filled, s1_chars, s2_chars, i + 1))

\* the table after the two nested loops
LevMatrix(s1_chars, s2_chars) ==
    Let(InitMatrix(Len(s1_chars), Len(s2_chars)),
        LAMBDA matrix : FillMatrix(matrix, s1_chars, s2_chars, 1))

levenshtein_distance(s1, s2) ==
    Let(graphemes(s1), LAMBDA s1_chars :
    Let(graphemes(s2), LAMBDA s2_chars :
        LevMatrix(s1_chars, s2_chars)[Len(s1_chars)][Len(s2_chars)]))

\* --------------------------------------------------------------------- f64

\* significant bits of an f64
MantissaBits == 53

LimbBits == 15

Limbs == 5

LimbBase == 2 ^ LimbBits

\* the limbs of a number, as a sequence
LimbSeq(f) == SubSeq(f, 1, Limbs)

\* number of bits of a limb value
BitLen15(x) == CHOOSE k \in 0..LimbBits : x < 2 ^ k /\ (k = 0 \/ x >= 2 ^ (k - 1))

TopLimb(n) ==
    IF \A i \in 1..Limbs : n[i] = 0 THEN 0
    ELSE CHOOSE i \in 1..Limbs : n[i] # 0 /\ \A k \in (i + 1)..Limbs : n[k] = 0

BitLen(n) ==
    IF TopLimb(n) = 0 THEN 0
    ELSE LimbBits * (TopLimb(n) - 1) + BitLen15(n[TopLimb(n)])

RECURSIVE AddFrom(_, _, _, _, _)
AddFrom(x, y, i, carry, acc) ==
    IF i > Limbs THEN acc
    ELSE LET t == x[i] + y[i] + carry
         IN  IF i = Limbs
             THEN Append(acc, t)
             ELSE AddFrom(x, y, i + 1, t \div LimbBase, Append(acc, t % LimbBase))

AddLimbs(x, y) == AddFrom(x, y, 1, 0, <<>>)

RECURSIVE SubFrom(_, _, _, _, _)
SubFrom(x, y, i, borrow, acc) ==
    IF i > Limbs THEN acc
    ELSE LET t == x[i] - y[i] - borrow
         IN  IF t < 0
             THEN SubFrom(x, y, i + 1, 1, Append(acc, t + LimbBase))
             ELSE SubFrom(x, y, i + 1, 0, Append(acc, t))

\* x - y for x >= y
SubLimbs(x, y) == SubFrom(x, y, 1, 0, <<>>)

RECURSIVE MulFrom(_, _, _, _, _)
MulFrom(x, c, i, carry, acc) ==
    IF i > Limbs THEN acc
    ELSE LET t == x[i] * c + carry
         IN  IF i = Limbs
             THEN Append(acc, t)
             ELSE MulFrom(x, c, i + 1, t \div LimbBase, Append(acc, t % LimbBase))

\* x * c for a natural c < 2^15
MulLimbs(x, c) == MulFrom(x, c, 1, 0, <<>>)

RECURSIVE DivFrom(_, _, _, _, _)
DivFrom(x, c, i, rem, acc) ==
    IF i < 1 THEN [q |-> acc, r |-> rem]
    ELSE LET cur == rem * LimbBase + x[i]
         IN  DivFrom(x, c, i - 1, cur % c, <<cur \div c>> \o acc)

\* floor(x / c) and the remainder, for a natural 0 < c < 2^15
DivLimbs(x, c) == DivFrom(x, c, Limbs, 0, <<>>)

\* The exact result n (with `sticky` when the exact result lies strictly
\* between n and n + 1 units) rounded to MantissaBits significant bits,
\* round-to-nearest, ties-to-even.
RoundF64(n, sticky) ==
    IF BitLen(n) <= MantissaBits THEN n
    ELSE LET s    == BitLen(n) - MantissaBits
             a    == s \div LimbBits
             b    == s % LimbBits
             odd  == (n[a + 1] \div (2 ^ b)) % 2 = 1
             h    == s - 1
             ha   == h \div LimbBits
             hb   == h % LimbBits
             half == LimbSeq([i \in 1..Limbs |->
                        IF odd \/ sticky
                        THEN (IF i = ha + 1 THEN 2 ^ hb ELSE 0)
                        ELSE (IF i < ha + 1 THEN LimbBase - 1
                              ELSE IF i = ha + 1 THEN 2 ^ hb - 1 ELSE 0)])
         IN  Let(AddLimbs(n, half), LAMBDA m :
                 LimbSeq([i \in 1..Limbs |->
                     IF i < a + 1 THEN 0
                     ELSE IF i = a + 1 THEN m[i] - (m[i] % (2 ^ b))
                     ELSE m[i]]))

\* n as f64, for a natural n < 2^15
F64FromInt(n) == LimbSeq([i \in 1..Limbs |-> IF i = Limbs THEN n ELSE 0])

F64Add(x, y) ==
    Let(x, LAMBDA xv : Let(y, LAMBDA yv :
        Let(AddLimbs(xv, yv), LAMBDA n : RoundF64(n, FALSE))))

\* x - y for x >= y
F64Sub(x, y) ==
    Let(x, LAMBDA xv : Let(y, LAMBDA yv :
        Let(SubLimbs(xv, yv), LAMBDA n : RoundF64(n, FALSE))))

\* x * (c as f64)
F64MulInt(x, c) ==
    Let(x, LAMBDA xv : Let(MulLimbs(xv, c), LAMBDA n : RoundF64(n, FALSE)))

\* x / (c as f64)
F64DivInt(x, c) ==
    Let(x, LAMBDA xv : Let(DivLimbs(xv, c), LAMBDA d : RoundF64(d.q, d.r # 0)))

\* x as i32: truncation toward zero
F64ToI32(x) == x[Limbs]

\* ---------------------------------------------------- calculate_similarity

\* calculate_similarity without the case of two empty texts
calculate_similarity_EmptyIsZero(s1, s2) ==
    IF is_empty(s1) \/ is_empty(s2) THEN F64FromInt(0)
    ELSE LET distance == levenshtein_distance(s1, s2)
             max_len  == Max(chars_count(s1), chars_count(s2))
         IN  F64Sub(F64FromInt(1), F64DivInt(F64FromInt(distance), max_len))

\* calculate_similarity dividing by the length of the first text
calculate_similarity_FirstLen(s1, s2) ==
    IF is_empty(s1) /\ is_empty(s2) THEN F64FromInt(1)
    ELSE IF is_empty(s1) \/ is_empty(s2) THEN F64FromInt(0)
    ELSE LET distance == levenshtein_distance(s1, s2)
             max_len  == chars_count(s1)
         IN  F64Sub(F64FromInt(1), F64DivInt(F64FromInt(distance), max_len))

\* calculate_similarity dividing by the larger grapheme cluster count
calculate_similarity_UnitLen(s1, s2) ==
    IF is_empty(s1) /\ is_empty(s2) THEN F64FromInt(1)
    ELSE IF is_empty(s1) \/ is_empty(s2) THEN F64FromInt(0)
    ELSE LET distance == levenshtein_distance(s1, s2)
             max_len  == Max(Len(graphemes(s1)), Len(graphemes(s2)))
         IN  F64Sub(F64FromInt(1), F64DivInt(F64FromInt(distance), max_len))

calculate_similarity(s1, s2) ==
    IF is_empty(s1) /\ is_empty(s2) THEN F64FromInt(1)
    ELSE IF is_empty(s1) \/ is_empty(s2) THEN F64FromInt(0)
    ELSE LET distance == levenshtein_distance(s1, s2)
             max_len  == Max(chars_count(s1), chars_count(s2))
         IN  F64Sub(F64FromInt(1), F64DivInt(F64FromInt(distance), max_len))

\* --------------------------------------------------- calculate_match_score

\* struct Contact
Contact(id, name, last_name, email, zip_code, address) ==
    [id |-> id, name |-> name, last_name |-> last_name, email |-> email,
     zip_code |-> zip_code, address |-> address]

\* calculate_match_score dividing by 10 instead of the weight total 11
calculate_match_score_Div10(contact1, contact2) ==
    LET s0 == F64FromInt(0)
        s1 == F64Add(s0, F64MulInt(calculate_similarity(contact1.name, contact2.name), 2))
        s2 == F64Add(s1, F64MulInt(calculate_similarity(contact1.last_name, contact2.last_name), 2))
        s3 == F64Add(s2, F64MulInt(calculate_similarity(contact1.email, contact2.email), 3))
        s4 == F64Add(s3, F64MulInt(calculate_similarity(contact1.zip_code, contact2.zip_code), 2))
        s5 == F64Add(s4, F64MulInt(calculate_similarity(contact1.address, contact2.address), 2))
    IN  F64ToI32(F64DivInt(F64MulInt(s5, 1000), 10))

calculate_match_score(contact1, contact2) ==
    LET s0 == F64FromInt(0)
        s1 == F64Add(s0, F64MulInt(calculate_similarity(contact1.name, contact2.name), 2))
        s2 == F64Add(s1, F64MulInt(calculate_similarity(contact1.last_name, contact2.last_name), 2))
        s3 == F64Add(s2, F64MulInt(calculate_similarity(contact1.email, contact2.email), 3))
        s4 == F64Add(s3, F64MulInt(calculate_similarity(contact1.zip_code, contact2.zip_code), 2))
        s5 == F64Add(s4, F64MulInt(calculate_similarity(contact1.address, contact2.address), 2))
    IN  F64ToI32(F64DivInt(F64MulInt(s5, 1000), 11))

\* ---------------------------------------------- calculate_similarity_scores

\* struct SimilarityScore
SimilarityScore(contact_id1, contact_id2, score) ==
    [contact_id1 |-> contact_id1, contact_id2 |-> contact_id2, score |-> score]

\* contacts[i + 1..].iter().map(move |c2| (c1, c2)): the pairs of the i-th
\* contact with each later one, from the j-th on.  A pair of references
\* into the slice is the pair of their positions.
RECURSIVE PairsWith(_, _, _)
PairsWith(n, i, j) ==
    IF j > n THEN <<>> ELSE <<[i |-> i, j |-> j]>> \o PairsWith(n, i, j + 1)

\* contacts.iter().enumerate().flat_map(..).collect(), from the i-th on
RECURSIVE PairsFrom(_, _)
PairsFrom(n, i) ==
    IF i > n THEN <<>> ELSE PairsWith(n, i, i + 1) \o PairsFrom(n, i + 1)

RECURSIVE PairsFromSelf(_, _)
PairsFromSelf(n, i) ==
    IF i > n THEN <<>> ELSE PairsWith(n, i, i) \o PairsFromSelf(n, i + 1)

\* GenPairs with the inner loop starting at i instead of i + 1
GenPairsWithSelf(cs) == PairsFromSelf(Len(cs), 1)

GenPairs(cs) == PairsFrom(Len(cs), 1)

\* the closure given to filter_map, applied to one pair: the entries it
\* yields (one SimilarityScore, or none)
\* the contacts of a run of the pipeline: two similar contacts that share an
\* id, and a third unlike both
Alice == Contact(1, <<"a", "b">>, <<"a">>, <<"a", "b">>, <<>>, <<"a", Accent>>)

Alicia == Contact(1, <<"a", "a">>, <<"a">>, <<"a", "b">>, <<>>, <<"a", Accent>>)

Bob == Contact(2, <<"b">>, <<"b">>, <<"b">>, <<"b">>, <<"b">>)

RunContacts == {Alice, Alicia, Bob}

\* calculate_match_score is a pure function: its values over the contacts of
\* the runs, each computed once
MatchScores ==
    {<<contact1, contact2, calculate_match_score(contact1, contact2)>> :
        contact1 \in RunContacts, contact2 \in RunContacts}

match_score(contact1, contact2) ==
    (CHOOSE e \in MatchScores : e[1] = contact1 /\ e[2] = contact2)[3]

\* FilterMap keeping only the scores above the threshold
FilterMapAbove(cs, t, pair) ==
    Let(match_score(cs[pair.i], cs[pair.j]), LAMBDA score :
        IF score > t
        THEN <<SimilarityScore(cs[pair.i].id, cs[pair.j].id, score)>>
        ELSE <<>>)

\* FilterMap keeping the scores at or below the threshold
FilterMapBelow(cs, t, pair) ==
    Let(match_score(cs[pair.i], cs[pair.j]), LAMBDA score :
        IF score <= t
        THEN <<SimilarityScore(cs[pair.i].id, cs[pair.j].id, score)>>
        ELSE <<>>)

FilterMap(cs, t, pair) ==
    Let(match_score(cs[pair.i], cs[pair.j]), LAMBDA score :
        IF score >= t
        THEN <<SimilarityScore(cs[pair.i].id, cs[pair.j].id, score)>>
        ELSE <<>>)

RECURSIVE FilterMapFrom(_, _, _, _)
FilterMapFrom(cs, t, ps, k) ==
    IF k > Len(ps) THEN <<>>
    ELSE FilterMap(cs, t, ps[k]) \o FilterMapFrom(cs, t, ps, k + 1)

\* The value calculate_similarity_scores returns: rayon's collect into a
\* Vec keeps the entries in the order of the pairs.
calculate_similarity_scores(cs, t) == FilterMapFrom(cs, t, GenPairs(cs), 1)

\* ------------------------------------------------------------------ inputs

RECURSIVE SeqsOfLen(_, _)
SeqsOfLen(S, n) ==
    IF n = 0 THEN {<<>>}
    ELSE {Append(q, x) : q \in SeqsOfLen(S, n - 1), x \in S}

SeqsUpTo(S, n) == UNION {SeqsOfLen(S, k) : k \in 0..n}

\* the texts of at most MaxLen code points
Texts == SeqsUpTo(CodePoints, MaxLen)

\* the contacts of the tests of src/main.rs
TJohn == <<"J", "o", "h", "n">>

TDoe == <<"D", "o", "e">>

TJohnMail == <<"j", "o", "h", "n", "@", "e", "x", "a", "m", "p", "l", "e", ".", "c", "o", "m">>

TZip == <<"1", "2", "3", "4", "5">>

TMainSt == <<"1", "2", "3", " ", "M", "a", "i", "n", " ", "S", "t">>

JohnDoe == Contact(1, TJohn, TDoe, TJohnMail, TZip, TMainSt)

JohnDoeClone == Contact(2, TJohn, TDoe, TJohnMail, TZip, TMainSt)

JonDoe ==
    Contact(2, <<"J", "o", "n">>, TDoe, TJohnMail, TZip,
            <<"1", "2", "3", " ", "M", "a", "i", "n", " ", "S", "t", "r", "e", "e", "t">>)

JaneSmith ==
    Contact(2, <<"J", "a", "n", "e">>, <<"S", "m", "i", "t", "h">>,
            <<"j", "a", "n", "e", "@", "e", "x", "a", "m", "p", "l", "e", ".", "c", "o", "m">>,
            <<"5", "4", "3", "2", "1">>,
            <<"4", "5", "6", " ", "O", "a", "k", " ", "A", "v", "e">>)

EmptyContact1 == Contact(1, <<>>, <<>>, <<>>, <<>>, <<>>)

EmptyContact2 == Contact(2, <<>>, <<>>, <<>>, <<>>, <<>>)

NormalContact == Contact(1, TJohn, TDoe, TJohnMail, <<>>, TMainSt)

TestContacts ==
    {JohnDoe, JohnDoeClone, JonDoe, JaneSmith, EmptyContact1, EmptyContact2,
     NormalContact}

\* the values each field of an enumerated contact is drawn from
NameTexts == {<<>>, <<"a", "b">>}

LastNameTexts == {<<>>, <<"a">>, <<"a", Accent>>}

EmailTexts == {<<"a", "b", "c">>, <<"a", "b", "d">>}

ZipTexts == {<<"1", "2", "3", "4", "5">>, <<"1", "2", "3", "4", "6">>}

AddressTexts == {<<>>, <<"a", "b", "c", "d", "e">>, <<"a", "b", "c", "x", "y">>}

FieldContacts(id) ==
    {Contact(id, n, l, e, z, a) :
        n \in NameTexts, l \in LastNameTexts, e \in EmailTexts,
        z \in ZipTexts, a \in AddressTexts}

\* the contacts calculate_match_score is applied to
FirstContacts == FieldContacts(1) \cup TestContacts

SecondContacts == FieldContacts(2) \cup TestContacts

ContactLists == SeqsUpTo(RunContacts, MaxContacts)

\* clap: value_parser!(i32).range(0..=1000), default_value = "800"
Thresholds == {0, 800, 1000}

None == "none"

\* ------------------------------------------------------------------- state

VARIABLES
    pc,          \* the position of the run
    arg_s1, arg_s2,      \* the arguments of levenshtein_distance / calculate_similarity
    ret_distance,    \* the usize levenshtein_distance returned
    ret_similarity,  \* the f64 calculate_similarity returned
    arg_contact1, arg_contact2,  \* the arguments of calculate_match_score
    ret_score,       \* the i32 calculate_match_score returned
    contacts,    \* the slice given to calculate_similarity_scores
    threshold,   \* its threshold
    threshold2,  \* the threshold of a second call on the same contacts
    result,      \* the Vec<SimilarityScore> returned
    result2,     \* the Vec returned by the second call
    pairs,       \* the local Vec<(&Contact, &Contact)>
    tasks,       \* rayon's tasks over `pairs`, in the order of their ranges
    scored       \* how many times the closure ran on each pair

vars ==
    <<pc, arg_s1, arg_s2, ret_distance, ret_similarity, arg_contact1, arg_contact2, ret_score, contacts,
      threshold, threshold2, result, result2, pairs, tasks, scored>>

textVars == <<arg_s1, arg_s2, ret_distance, ret_similarity>>

recordVars == <<arg_contact1, arg_contact2, ret_score>>

batchVars == <<threshold2, result2>>

runVars == <<contacts, threshold, result, pairs, tasks, scored>>

NoText ==
    /\ arg_s1 = <<>> /\ arg_s2 = <<>> /\ ret_distance = None /\ ret_similarity = None

NoRecord ==
    /\ arg_contact1 = EmptyContact1 /\ arg_contact2 = EmptyContact1 /\ ret_score = None

NoBatch == threshold2 = None /\ result2 = None

NoRun ==
    /\ contacts = <<>> /\ threshold = None /\ result = None
    /\ pairs = <<>> /\ tasks = <<>> /\ scored = <<>>

\* ------------------------------------------ the pipeline, task by task

\* a task of rayon's over pairs[lo..hi]: `next` is the pair it scores next,
\* `out` the entries it has kept so far
Task(lo, hi, next, out) == [lo |-> lo, hi |-> hi, next |-> next, out |-> out]

Finished(task) == task.next > task.hi

Replace(seq, k, new) == SubSeq(seq, 1, k - 1) \o new \o SubSeq(seq, k + 1, Len(seq))

Init ==
    /\ pc = "start"
    /\ contacts \in ContactLists
    /\ threshold \in Thresholds
    /\ result = None
    /\ pairs = <<>> /\ tasks = <<>> /\ scored = <<>>
    /\ NoText /\ NoRecord /\ NoBatch

\* lines 153-157: the pairs are generated
GeneratePairs ==
    /\ pc = "start"
    /\ pairs' = GenPairs(contacts)
    /\ pc' = "pairs"
    /\ UNCHANGED <<contacts, threshold, result, tasks, scored>>
    /\ UNCHANGED <<textVars, recordVars, batchVars>>

\* line 161: pairs.par_iter(): one task over all the pairs
ParIter ==
    /\ pc = "pairs"
    /\ tasks' = <<Task(1, Len(pairs), 1, <<>>)>>
    /\ scored' = [k \in 1..Len(pairs) |-> 0]
    /\ pc' = "scoring"
    /\ UNCHANGED <<contacts, threshold, result, pairs>>
    /\ UNCHANGED <<textVars, recordVars, batchVars>>

\* rayon splits a task that has not started in two halves, which run
\* independently of each other
Split(k) ==
    /\ pc = "scoring"
    /\ k \in 1..Len(tasks)
    /\ Len(tasks) < MaxTasks
    /\ tasks[k].next = tasks[k].lo
    /\ tasks[k].hi > tasks[k].lo
    /\ LET t   == tasks[k]
           mid == t.lo + (t.hi - t.lo + 1) \div 2
       IN  tasks' = Replace(tasks, k,
                        <<Task(t.lo, mid - 1, t.lo, <<>>), Task(mid, t.hi, mid, <<>>)>>)
    /\ UNCHANGED <<pc, contacts, threshold, result, pairs, scored>>
    /\ UNCHANGED <<textVars, recordVars, batchVars>>

\* lines 162-173: a task runs the closure on its next pair
Work(k) ==
    /\ pc = "scoring"
    /\ k \in 1..Len(tasks)
    /\ ~Finished(tasks[k])
    /\ LET t == tasks[k]
       IN  /\ tasks' = [tasks EXCEPT
                  ![k].out = t.out \o FilterMap(contacts, threshold, pairs[t.next]),
                  ![k].next = t.next + 1]
           /\ scored' = [scored EXCEPT ![t.next] = @ + 1]
    /\ UNCHANGED <<pc, contacts, threshold, result, pairs>>
    /\ UNCHANGED <<textVars, recordVars, batchVars>>

\* two finished neighbouring tasks are reduced to one: their entries are
\* concatenated in the order of their ranges
\* Join losing the partial result of the right task
JoinDropsRight(k) ==
    /\ pc = "scoring"
    /\ k \in 1..(Len(tasks) - 1)
    /\ Finished(tasks[k]) /\ Finished(tasks[k + 1])
    /\ LET l == tasks[k]
           r == tasks[k + 1]
       IN  tasks' = SubSeq(tasks, 1, k - 1)
                    \o <<Task(l.lo, r.hi, r.hi + 1, l.out)>>
                    \o SubSeq(tasks, k + 2, Len(tasks))
    /\ UNCHANGED <<pc, contacts, threshold, result, pairs, scored>>
    /\ UNCHANGED <<textVars, recordVars, batchVars>>

Join(k) ==
    /\ pc = "scoring"
    /\ k \in 1..(Len(tasks) - 1)
    /\ Finished(tasks[k]) /\ Finished(tasks[k + 1])
    /\ LET l == tasks[k]
           r == tasks[k + 1]
       IN  tasks' = SubSeq(tasks, 1, k - 1)
                    \o <<Task(l.lo, r.hi, r.hi + 1, l.out \o r.out)>>
                    \o SubSeq(tasks, k + 2, Len(tasks))
    /\ UNCHANGED <<pc, contacts, threshold, result, pairs, scored>>
    /\ UNCHANGED <<textVars, recordVars, batchVars>>

\* line 174: collect() returns the entries of the last task
Collect ==
    /\ pc = "scoring"
    /\ Len(tasks) = 1
    /\ Finished(tasks[1])
    /\ result' = tasks[1].out
    /\ pc' = "done"
    /\ UNCHANGED <<contacts, threshold, pairs, tasks, scored>>
    /\ UNCHANGED <<textVars, recordVars, batchVars>>

Next ==
    \/ GeneratePairs
    \/ ParIter
    \/ \E k \in 1..MaxTasks : Split(k)
    \/ \E k \in 1..MaxTasks : Work(k)
    \/ \E k \in 1..MaxTasks : Join(k)
    \/ Collect

Spec == Init /\ [][Next]_vars

\* rayon's pool runs every task it holds until none is left
FairSpec == Spec /\ WF_vars(Next)

\* ------------------------------------------- the functions, call by call

TextInit ==
    /\ pc = "text"
    /\ arg_s1 \in Texts /\ arg_s2 \in Texts
    /\ ret_distance = None /\ ret_similarity = None
    /\ NoRecord /\ NoBatch /\ NoRun

RecordInit ==
    /\ pc = "record"
    /\ arg_contact1 \in FirstContacts /\ arg_contact2 \in SecondContacts
    /\ ret_score = None
    /\ NoText /\ NoBatch /\ NoRun

BatchInit ==
    /\ pc = "batch"
    /\ contacts \in ContactLists
    /\ threshold \in Thresholds /\ threshold2 \in Thresholds
    /\ result = None /\ result2 = None
    /\ pairs = <<>> /\ tasks = <<>> /\ scored = <<>>
    /\ NoText /\ NoRecord

PureInit == TextInit \/ RecordInit \/ BatchInit

CallDistance ==
    /\ pc = "text"
    /\ ret_distance' = levenshtein_distance(arg_s1, arg_s2)
    /\ pc' = "distance"
    /\ UNCHANGED <<arg_s1, arg_s2, ret_similarity, recordVars, batchVars, runVars>>

CallSimilarity ==
    /\ pc = "text"
    /\ ret_similarity' = calculate_similarity(arg_s1, arg_s2)
    /\ pc' = "similarity"
    /\ UNCHANGED <<arg_s1, arg_s2, ret_distance, recordVars, batchVars, runVars>>

CallMatchScore ==
    /\ pc = "record"
    /\ ret_score' = calculate_match_score(arg_contact1, arg_contact2)
    /\ pc' = "score"
    /\ UNCHANGED <<arg_contact1, arg_contact2, textVars, batchVars, runVars>>

\* two calls of calculate_similarity_scores on the same contacts
CallScores ==
    /\ pc = "batch"
    /\ result' = calculate_similarity_scores(contacts, threshold)
    /\ result2' = calculate_similarity_scores(contacts, threshold2)
    /\ pc' = "scores"
    /\ UNCHANGED <<contacts, threshold, threshold2, pairs, tasks, scored>>
    /\ UNCHANGED <<textVars, recordVars>>

PureNext == CallDistance \/ CallSimilarity \/ CallMatchScore \/ CallScores

PureSpec == PureInit /\ [][PureNext]_vars

\* ------------------------------------------------------------- properties

Range(seq) == {seq[k] : k \in 1..Len(seq)}

\* how many times e occurs in seq
Occurrences(seq, e) == Cardinality({k \in 1..Len(seq) : seq[k] = e})

\* the index pairs (i, j), i < j, of the contacts of the run
IndexPairs == {p \in (1..Len(contacts)) \X (1..Len(contacts)) : p[1] < p[2]}

\* the entry the index pair p stands for
Entry(p) ==
    SimilarityScore(contacts[p[1]].id, contacts[p[2]].id,
                    calculate_match_score(contacts[p[1]], contacts[p[2]]))

\* two contacts equal in their five text fields (whatever their ids)
SameFields(c1, c2) ==
    /\ c1.name = c2.name /\ c1.last_name = c2.last_name /\ c1.email = c2.email
    /\ c1.zip_code = c2.zip_code /\ c1.address = c2.address

\* An alignment of two unit sequences of lengths m and n: the units of the
\* first at the positions I are matched, in order, with the units of the
\* second at the positions J.  It stands for the edit script that deletes
\* the unmatched units of the first, inserts the unmatched units of the
\* second and substitutes every matched unit that differs from its partner;
\* every script of single-unit insertions, deletions and substitutions
\* induces an alignment with at most as many operations.
Alignments(m, n) ==
    {al \in (SUBSET (1..m)) \X (SUBSET (1..n)) : Cardinality(al[1]) = Cardinality(al[2])}

EditCount(a, b, al) ==
    (Len(a) - Cardinality(al[1])) + (Len(b) - Cardinality(al[2]))
    + Cardinality({i \in al[1] :
          a[i] # b[NthOf(al[2], Cardinality({x \in al[1] : x <= i}))]})

\* the minimum number of single-unit edits that transform a into b
MinEdits(a, b) ==
    Let({EditCount(a, b, al) : al \in Alignments(Len(a), Len(b))}, LAMBDA counts :
        CHOOSE c \in counts : \A o \in counts : c <= o)

\* floor(x * 2^20) for an f64 0 <= x <= 1
Fixed20(x) == x[5] * (2 ^ 20) + x[4] * (2 ^ 5) + x[3] \div (2 ^ 10)

\* C9: the bottom-right cell of the table levenshtein_distance builds (the
\* value it returns) is the minimum number of single-unit insertions,
\* deletions and substitutions that transform the grapheme sequence of the
\* first text into that of the second; it is 0 for equal texts and the
\* number of units of the other text when one text is empty.
C9_DistanceIsMinimumEdits ==
    pc = "distance" =>
        /\ ret_distance = MinEdits(graphemes(arg_s1), graphemes(arg_s2))
        /\ arg_s1 = arg_s2 => ret_distance = 0
        /\ arg_s1 = <<>> => ret_distance = Len(graphemes(arg_s2))
        /\ arg_s2 = <<>> => ret_distance = Len(graphemes(arg_s1))

C9_Witness ==
    /\ pc = "distance"
    /\ arg_s1 = <<"a", "b">> /\ arg_s2 = <<"b", Accent, "a">>
    /\ ret_distance = 2

\* C6: calculate_similarity returns a value in [0.0, 1.0]: 1.0 for two empty
\* texts, 0.0 when exactly one is empty, and otherwise (to within 2^-20)
\* 1 - d/m, with d the edit distance of the grapheme sequences and m >= 1 the
\* larger code point count; d never exceeds m.
C6_SimilarityInUnitInterval ==
    pc = "similarity" =>
        LET d == MinEdits(graphemes(arg_s1), graphemes(arg_s2))
            m == Max(Len(arg_s1), Len(arg_s2))
        IN  /\ ret_similarity[5] = 0 \/ ret_similarity = F64FromInt(1)
            /\ \A i \in 1..5 : ret_similarity[i] >= 0
            /\ arg_s1 = <<>> /\ arg_s2 = <<>> => ret_similarity = F64FromInt(1)
            /\ (arg_s1 = <<>>) # (arg_s2 = <<>>) => ret_similarity = F64FromInt(0)
            /\ arg_s1 # <<>> /\ arg_s2 # <<>> =>
                  /\ m >= 1
                  /\ d <= m
                  /\ Fixed20(ret_similarity) * m - (m - d) * (2 ^ 20) \in (0 - m)..0

C6_Witness ==
    /\ pc = "similarity"
    /\ arg_s1 = <<"a", Accent>> /\ arg_s2 = <<"a">>
    /\ ret_similarity = F64DivInt(F64FromInt(1), 2)

\* C3: calculate_match_score returns an integer between 0 and 1000, and
\* exactly 1000 for two contacts whose five fields are identical (all-empty
\* fields and differing ids included).
C3_ScoreRange ==
    pc = "score" =>
        /\ ret_score \in 0..1000
        /\ SameFields(arg_contact1, arg_contact2) => ret_score = 1000

C3_Witness ==
    /\ pc = "score"
    /\ arg_contact1 = EmptyContact1 /\ arg_contact2 = EmptyContact2
    /\ arg_contact1.id # arg_contact2.id
    /\ ret_score = 1000

\* C4: levenshtein_distance, calculate_similarity and calculate_match_score
\* return the same value when their two arguments are exchanged.
C4_Symmetric ==
    /\ pc = "distance" => ret_distance = levenshtein_distance(arg_s2, arg_s1)
    /\ pc = "similarity" => ret_similarity = calculate_similarity(arg_s2, arg_s1)
    /\ pc = "score" => ret_score = calculate_match_score(arg_contact2, arg_contact1)

C4_Witness ==
    /\ pc = "score"
    /\ arg_contact1 = JonDoe /\ arg_contact2 = JohnDoe
    /\ ret_score = 906

\* C5: for thresholds t1 <= t2 over the same contacts, every entry reported
\* at t2 is reported at t1 (as often, with the same score), so the result at
\* t2 is never longer than the result at t1.
C5_ThresholdMonotone ==
    pc = "scores" /\ threshold <= threshold2 =>
        /\ Len(result2) <= Len(result)
        /\ \A e \in Range(result2) : Occurrences(result2, e) <= Occurrences(result, e)

C5_Witness ==
    /\ pc = "scores"
    /\ threshold = 0 /\ threshold2 = 800
    /\ contacts = <<Alice, Alicia, Bob>>
    /\ Len(result) = 3 /\ Len(result2) = 1

\* C7: threshold 0 returns an entry for every one of the N(N-1)/2 index
\* pairs; threshold 1000 returns exactly the index pairs whose five fields
\* are identical, because a pair with a differing field scores at most 999.
C7_ThresholdBoundaries ==
    /\ pc = "scores" /\ threshold = 0 =>
          Len(result) = (Len(contacts) * (Len(contacts) - 1)) \div 2
    /\ pc = "scores" /\ threshold = 1000 =>
          \A e \in Range(result) \cup {Entry(p) : p \in IndexPairs} :
              Occurrences(result, e) =
                  Cardinality({p \in IndexPairs :
                      /\ SameFields(contacts[p[1]], contacts[p[2]])
                      /\ e = SimilarityScore(contacts[p[1]].id, contacts[p[2]].id, 1000)})
    /\ pc = "score" /\ ~SameFields(arg_contact1, arg_contact2) => ret_score <= 999

C7_Witness ==
    /\ pc = "scores"
    /\ threshold = 1000
    /\ contacts = <<Alice, Alicia, Alice>>
    /\ result = <<SimilarityScore(1, 1, 1000)>>

RECURSIVE GCD(_, _)
GCD(a, b) == IF b = 0 THEN a ELSE GCD(b, a % b)

LCM(a, b) == (a \div GCD(a, b)) * b

\* the exact similarity of two texts as a fraction <<numerator, denominator>>
ExactSimilarity(s1, s2) ==
    IF s1 = <<>> /\ s2 = <<>> THEN <<1, 1>>
    ELSE IF s1 = <<>> \/ s2 = <<>> THEN <<0, 1>>
    ELSE Let(Max(Len(s1), Len(s2)), LAMBDA m :
             <<m - levenshtein_distance(s1, s2), m>>)

\* the exact weighted sum 2*name + 2*last_name + 3*email + 2*zip_code
\* + 2*address of the similarities, as a fraction <<numerator, denominator>>
ExactWeightedSum(c1, c2) ==
    Let(<<ExactSimilarity(c1.name, c2.name), ExactSimilarity(c1.last_name, c2.last_name),
          ExactSimilarity(c1.email, c2.email), ExactSimilarity(c1.zip_code, c2.zip_code),
          ExactSimilarity(c1.address, c2.address)>>, LAMBDA sim :
    Let(LCM(LCM(LCM(LCM(sim[1][2], sim[2][2]), sim[3][2]), sim[4][2]), sim[5][2]), LAMBDA den :
        << 2 * sim[1][1] * (den \div sim[1][2]) + 2 * sim[2][1] * (den \div sim[2][2])
           + 3 * sim[3][1] * (den \div sim[3][2]) + 2 * sim[4][1] * (den \div sim[4][2])
           + 2 * sim[5][1] * (den \div sim[5][2]), den >>))

\* C8: the score is the weighted sum of the five similarities (weights 2, 2,
\* 3, 2, 2), multiplied by 1000, divided by 11 and truncated toward zero.
C8_TruncatedWeightedSum ==
    pc = "score" =>
        Let(ExactWeightedSum(arg_contact1, arg_contact2), LAMBDA sum :
            /\ 11 * sum[2] * ret_score <= 1000 * sum[1]
            /\ 1000 * sum[1] < 11 * sum[2] * (ret_score + 1))

\* C8: the scores the claim lists for three pairs of contacts
C8_Examples ==
    /\ calculate_match_score(JohnDoe, JonDoe) = 906
    /\ calculate_match_score(JohnDoe, JaneSmith) = 336
    /\ calculate_match_score(NormalContact, EmptyContact1) = 181

\* C2: the generated pairs are exactly the index pairs (i, j) with i < j
\* (positions counted from 1 here, from 0 in the program): N(N-1)/2 of them,
\* each once, none with i = j and none in both orders.
C2_PairsAreUpperTriangle ==
    pc \in {"pairs", "scoring", "done"} =>
        /\ Len(pairs) = (Len(contacts) * (Len(contacts) - 1)) \div 2
        /\ {<<p.i, p.j>> : p \in Range(pairs)} = IndexPairs
        /\ \A k, l \in 1..Len(pairs) :
              /\ pairs[k].i # pairs[k].j
              /\ k # l => pairs[k] # pairs[l]
              /\ ~(pairs[k].i = pairs[l].j /\ pairs[k].j = pairs[l].i)

C2_Witness ==
    /\ pc = "pairs"
    /\ Len(contacts) = 3
    /\ pairs = <<[i |-> 1, j |-> 2], [i |-> 1, j |-> 3], [i |-> 2, j |-> 3]>>

\* C1: the result of a run holds exactly one entry (id of the first, id of
\* the second, score) for every index pair i < j whose score is at least the
\* threshold, and nothing else; contacts sharing an id are still reported per
\* index pair.  Alice, Alicia and Bob at threshold 800 give one entry.
C1_ResultIsPairsAtOrAboveThreshold ==
    pc = "done" =>
        /\ \A e \in Range(result) \cup {Entry(p) : p \in IndexPairs} :
              Occurrences(result, e) =
                  Cardinality({p \in IndexPairs : Entry(p) = e /\ e.score >= threshold})
        /\ contacts = <<Alice, Alicia, Bob>> /\ threshold = 800 => Len(result) = 1

C1_Witness ==
    /\ pc = "done"
    /\ contacts = <<Alice, Alicia, Bob>> /\ threshold = 800
    /\ result = <<SimilarityScore(1, 1, 909)>>

\* C10: under fair scheduling the parallel scoring terminates; when it has,
\* every pair has been scored exactly once and the collected entries are, as
\* a multiset, those of the one-pair-at-a-time evaluation, whatever the
\* splitting and interleaving; the contacts and pairs are never written, and
\* a scoring step writes to the partial result of one task only.
C10_ParallelScoring ==
    /\ [](pc = "done" =>
            /\ \A k \in 1..Len(pairs) : scored[k] = 1
            /\ \A e \in Range(result) \cup Range(calculate_similarity_scores(contacts, threshold)) :
                  Occurrences(result, e) =
                      Occurrences(calculate_similarity_scores(contacts, threshold), e))
    /\ [][/\ contacts' = contacts
          /\ pc = "scoring" => pairs' = pairs
          /\ pc = "scoring" /\ pc' = "scoring" /\ Len(tasks') = Len(tasks) =>
                Cardinality({k \in 1..Len(tasks) : tasks'[k].out # tasks[k].out}) <= 1]_vars
    /\ <>(pc = "done")

C10_Witness ==
    /\ pc = "scoring"
    /\ Len(tasks) = 3
    /\ tasks[1].next = tasks[1].lo
    /\ tasks[3].next > tasks[3].lo /\ tasks[3].out # <<>>

====
